---- MODULE Spec2Model ----
(***************************************************************************)
(* Model of src/index.js: a Telegram bot that forwards every inbound media *)
(* message into a storage channel, registers it in the in-memory fileStore *)
(* under a key derived from the file id, and serves it back over HTTP.     *)
(*                                                                         *)
(* One step of the model is one synchronous segment of a handler: the code *)
(* between two awaits.  The messaging client is the environment: each of   *)
(* its calls either resolves or throws, and the storage channel can lose   *)
(* messages at any time.                                                   *)
(***************************************************************************)
EXTENDS Integers, Sequences, FiniteSets, TLC

VARIABLES
    fileStore,  \* Map key -> record                         (index.js:28)
    msgs,       \* inbound messages seen so far; message.id = index
    tasks,      \* handleFile invocations, in order of invocation
    stored,     \* every message ever forwarded into BIN_CHANNEL; id = index
    channel,    \* ids of the forwarded messages still in BIN_CHANNEL
    req,        \* the HTTP request being served, or the last one served
    codec       \* inputs and outputs of the key codec (SpecCodec only)

vars == <<fileStore, msgs, tasks, stored, channel, req, codec>>

-----------------------------------------------------------------------------
(* Bounds of the model *)

MaxTasks == 2       \* handleFile invocations
MaxIdLen == 8       \* longest file id of the codec specification

(* Program constants *)

HashLen == 6        \* fileId.slice(-6), id.slice(0, 6), id.slice(6)

-----------------------------------------------------------------------------
(* Strings are sequences of characters; a file id is its decimal string.   *)

SliceLast(s, n) == IF Len(s) <= n THEN s ELSE SubSeq(s, Len(s) - n + 1, Len(s))

SliceTo(s, n) == IF Len(s) <= n THEN s ELSE SubSeq(s, 1, n)

SliceFrom(s, n) == IF Len(s) <= n THEN <<>> ELSE SubSeq(s, n + 1, Len(s))

generateHash(fileId) == SliceLast(fileId, HashLen)

StoreKeyHashOnly(fileId) == generateHash(fileId)

StoreKey(fileId) == generateHash(fileId) \o fileId

getFileLink(hash, fileId) == [route |-> "file", key |-> hash \o fileId]

getWatchLink(hash, fileId) == [route |-> "watch", key |-> hash \o fileId]

NoLink == [route |-> "none", key |-> <<>>]

-----------------------------------------------------------------------------
(* Inbound messages.  A message populates some of the four attachment      *)
(* fields; all populated fields refer to the same media object.            *)

Kinds == {"document", "video", "audio", "photo"}

HandlerOrder == <<"document", "video", "audio", "photo">>

Undefined == "undefined"

F1 == <<1, 2, 2, 2, 2, 2, 2>>
F2 == <<3, 2, 2, 2, 2, 2, 2>>
F3 == <<4, 5>>

FileIds == {F1, F2, F3}

Inbound ==
    { [fields |-> {"document"}, file |-> F1, name |-> "report.pdf",
       mime |-> "application/pdf", size |-> 1024],
      [fields |-> {"photo"}, file |-> F2, name |-> Undefined,
       mime |-> Undefined, size |-> 512],
      [fields |-> {"document", "video"}, file |-> F3, name |-> Undefined,
       mime |-> Undefined, size |-> 2048],
      [fields |-> {"document", "audio"}, file |-> F1, name |-> "song.mp3",
       mime |-> "audio/mpeg", size |-> 1024] }

(* fileName: the attribute's fileName, or a kind-prefixed name stamped     *)
(* with Date.now().  The clock of the model ticks with every inbound       *)
(* message: the stamp is the position of the message among them.           *)
Name(base, ts) == [base |-> base, ts |-> ts]

NoName == Name("", 0)

FileNameOf(m, fileType, ts) ==
    IF fileType = "photo" THEN Name("photo_.jpg", ts)
    ELSE IF m.name # Undefined THEN Name(m.name, 0)
    ELSE IF fileType = "document" THEN Name("file_", ts)
    ELSE IF fileType = "video" THEN Name("video_.mp4", ts)
    ELSE Name("audio_.mp3", ts)

MimeTypeOf(m, fileType) ==
    IF fileType = "photo" THEN "image/jpeg"
    ELSE IF m.mime # Undefined THEN m.mime
    ELSE IF fileType = "video" THEN "video/mp4"
    ELSE IF fileType = "audio" THEN "audio/mpeg"
    ELSE Undefined

FileSizeOf(m, fileType) == m.size

(* message[fileType]: the media object, or undefined when the message does *)
(* not populate that field (any property read on it then throws).          *)
HasFile(m, fileType) == fileType \in m.fields

IsSupportedAny(fileType) == TRUE

IsSupported(fileType) == fileType \in Kinds

-----------------------------------------------------------------------------
(* The registry *)

EmptyMap == [k \in {} |-> 0]

MapSet(map, key, rec) ==
    [k \in DOMAIN map \cup {key} |-> IF k = key THEN rec ELSE map[k]]

NoRec ==
    [fileId |-> <<>>, fileName |-> NoName, fileSize |-> 0, mimeType |-> Undefined,
     messageId |-> 0, fileType |-> "none"]

MapGet(map, key) == IF key \in DOMAIN map THEN map[key] ELSE NoRec

-----------------------------------------------------------------------------
(* Ingestion: handleFile(event, fileType), one task per invocation.        *)
(*   pc: start    not yet run                                              *)
(*       status   awaiting sendMessage("Processing file...")               *)
(*       forward  awaiting forwardMessages(BIN_CHANNEL, ...)               *)
(*       edit     awaiting editMessage("File Processed!" with the links)   *)
(*       reject   awaiting sendMessage("Unsupported file type")            *)
(*       catch    awaiting sendMessage("Error: ...") of the catch block    *)
(*       done     returned; escaped: the catch block's own send threw      *)
(*   sent: the replies the task has issued; delivered: those that resolved *)

NewTask(m, fileType) ==
    [msg |-> m, fileType |-> fileType, pc |-> "start",
     fileName |-> NoName, fileSize |-> 0, mimeType |-> Undefined,
     relay |-> "none", fwdId |-> 0, key |-> <<>>, inserted |-> FALSE,
     direct |-> NoLink, watch |-> NoLink,
     sent |-> {}, delivered |-> {}]

Outcomes == {"ok", "throw"}

CatchSilent(t) == [t EXCEPT !.pc = "done"]

(* catch (error) { await client.sendMessage(chatId, "Error: ...") }        *)
Catch(t) == [t EXCEPT !.pc = "catch", !.sent = @ \cup {"error"}]

Issue(t, reply, pc) == [t EXCEPT !.pc = pc, !.sent = @ \cup {reply}]

Deliver(t, reply, pc) == [t EXCEPT !.pc = pc, !.delivered = @ \cup {reply}]

(* The synchronous prefix of handleFile, up to its first await.            *)
Extract(t, ts) ==
    LET m == msgs[t.msg] IN
    IF ~IsSupported(t.fileType) THEN Issue(t, "unsupported", "reject")
    ELSE IF ~HasFile(m, t.fileType) THEN Catch(t)
    ELSE Issue([t EXCEPT !.fileName = FileNameOf(m, t.fileType, ts),
                         !.fileSize = FileSizeOf(m, t.fileType),
                         !.mimeType = MimeTypeOf(m, t.fileType)],
               "processing", "status")

RecordOfSourceMessage(t, forwardedMsgId) ==
    [fileId |-> msgs[t.msg].file, fileName |-> t.fileName, fileSize |-> t.fileSize,
     mimeType |-> t.mimeType, messageId |-> t.msg, fileType |-> t.fileType]

(* What handleFile does once forwardMessages has resolved with the id of   *)
(* the forwarded message: register the record and issue the reply.         *)
RecordOf(t, forwardedMsgId) ==
    [fileId |-> msgs[t.msg].file, fileName |-> t.fileName, fileSize |-> t.fileSize,
     mimeType |-> t.mimeType, messageId |-> forwardedMsgId, fileType |-> t.fileType]

OfferWatchVideoOnly(fileType) == fileType = "video"

OfferWatch(fileType) == fileType = "video" \/ fileType = "audio"

Registered(t, forwardedMsgId) ==
    LET fileId == msgs[t.msg].file
        hash == generateHash(fileId)
    IN Issue([t EXCEPT !.relay = "ok", !.fwdId = forwardedMsgId,
                       !.key = StoreKey(fileId), !.inserted = TRUE,
                       !.direct = getFileLink(hash, fileId),
                       !.watch = IF OfferWatch(t.fileType)
                                 THEN getWatchLink(hash, fileId) ELSE NoLink],
             "success", "edit")

SetTask(i, t) == tasks' = [tasks EXCEPT ![i] = t]

Now(t) == t.msg

NewMessage(m) ==
    /\ Len(tasks) + Cardinality(m.fields) <= MaxTasks
    /\ msgs' = Append(msgs, m)
    /\ LET id == Len(msgs) + 1
           fired == SelectSeq(HandlerOrder, LAMBDA k : k \in m.fields)
       IN tasks' = tasks \o [j \in 1 .. Len(fired) |-> NewTask(id, fired[j])]
    /\ UNCHANGED <<fileStore, stored, channel, req, codec>>

Ended == {"done", "escaped"}

(* The handlers registered for one event are awaited one after the other.  *)
HandleFile(i) ==
    /\ tasks[i].pc = "start"
    /\ \A j \in 1 .. i - 1 : tasks[j].msg = tasks[i].msg => tasks[j].pc \in Ended
    /\ SetTask(i, Extract(tasks[i], Now(tasks[i])))
    /\ UNCHANGED <<fileStore, msgs, stored, channel, req, codec>>

StatusResolved(i) ==
    /\ tasks[i].pc = "status"
    /\ \E o \in Outcomes :
        SetTask(i, IF o = "ok" THEN Deliver(tasks[i], "processing", "forward")
                   ELSE Catch(tasks[i]))
    /\ UNCHANGED <<fileStore, msgs, stored, channel, req, codec>>

ForwardOk(i) ==
    /\ tasks[i].pc = "forward"
    /\ LET id == Len(stored) + 1
           t == Registered(tasks[i], id)
       IN /\ stored' = Append(stored, [file |-> msgs[tasks[i].msg].file,
                                       size |-> msgs[tasks[i].msg].size])
          /\ channel' = channel \cup {id}
          /\ fileStore' = MapSet(fileStore, t.key, RecordOf(tasks[i], id))
          /\ SetTask(i, t)
    /\ UNCHANGED <<msgs, req, codec>>

ForwardThrows(i) ==
    /\ tasks[i].pc = "forward"
    /\ SetTask(i, Catch([tasks[i] EXCEPT !.relay = "failed"]))
    /\ UNCHANGED <<fileStore, msgs, stored, channel, req, codec>>

EditResolved(i) ==
    /\ tasks[i].pc = "edit"
    /\ \E o \in Outcomes :
        SetTask(i, IF o = "ok" THEN Deliver(tasks[i], "success", "done")
                   ELSE Catch(tasks[i]))
    /\ UNCHANGED <<fileStore, msgs, stored, channel, req, codec>>

RejectResolved(i) ==
    /\ tasks[i].pc = "reject"
    /\ \E o \in Outcomes :
        SetTask(i, IF o = "ok" THEN Deliver(tasks[i], "unsupported", "done")
                   ELSE Catch(tasks[i]))
    /\ UNCHANGED <<fileStore, msgs, stored, channel, req, codec>>

CatchResolved(i) ==
    /\ tasks[i].pc = "catch"
    /\ \E o \in Outcomes :
        SetTask(i, IF o = "ok" THEN Deliver(tasks[i], "error", "done")
                   ELSE [tasks[i] EXCEPT !.pc = "escaped"])
    /\ UNCHANGED <<fileStore, msgs, stored, channel, req, codec>>

(* A message of the storage channel is deleted upstream.                   *)
DeleteStored(id) ==
    /\ id \in channel
    /\ channel' = channel \ {id}
    /\ UNCHANGED <<fileStore, msgs, tasks, stored, req, codec>>

-----------------------------------------------------------------------------
(* Retrieval.  The routes only read fileStore and share nothing else, so   *)
(* requests do not affect one another; the model serves one at a time and  *)
(* lets it interleave freely with ingestion and with upstream deletion.    *)
(* The response of a request is the last thing that happens to it: the     *)
(* state that shows it is left by closing the request.                     *)
(*   pc: getMessages    awaiting client.getMessages(BIN_CHANNEL, [id])     *)
(*       downloadMedia  awaiting client.downloadMedia(message)             *)
(*       done           response sent                                      *)
(*   upstream: the number of client calls the request has issued           *)

NoPayload == [file |-> <<>>, len |-> 0]

NoRes ==
    [status |-> 0, text |-> "", ctype |-> "", fname |-> NoName, clen |-> 0,
     body |-> NoPayload, link |-> NoLink, embed |-> "", total |-> 0]

NoReq ==
    [route |-> "none", key |-> <<>>, pc |-> "idle", fileData |-> NoRec,
     got |-> "none", dl |-> "none", upstream |-> 0, seen |-> {}, res |-> NoRes]

Reply(r, status, text) ==
    [r EXCEPT !.pc = "done", !.res = [NoRes EXCEPT !.status = status, !.text = text]]

ServeErrorLeaky(r, error) == Reply(r, 500, error)

(* catch (error) { res.status(500).send("Error serving file") }: the error *)
(* caught is logged, the body is fixed.                                    *)
ServeError(r, error) == Reply(r, 500, "Error serving file")

FoundAlways(fileData) == TRUE

(* if (!fileData) return res.status(404)...                                *)
Found(fileData) == fileData # NoRec

(* The tasks whose success reply had been delivered when the request came. *)
Succeeded == {i \in DOMAIN tasks : "success" \in tasks[i].delivered}

NewReq(route, key) ==
    [NoReq EXCEPT !.route = route, !.key = key, !.fileData = MapGet(fileStore, key),
                  !.seen = Succeeded]

(* app.get("/file/:id"), up to its first await.                            *)
FileLookup(r) ==
    IF ~Found(r.fileData) THEN Reply(r, 404, "File not found")
    ELSE [r EXCEPT !.pc = "getMessages", !.upstream = @ + 1]

(* What getMessages can resolve with: the message with its media; for an   *)
(* id the channel no longer holds, an empty list or a list whose only      *)
(* element is undefined, depending on the client.                          *)
Shapes(messageId) ==
    IF messageId \in channel THEN {"media"} ELSE {"empty", "undef"}

AfterGetMessagesEager(r, shape) ==
    LET got == [r EXCEPT !.got = shape] IN
    CASE shape = "throw"   -> ServeError(got, "getMessages failed")
      [] shape = "empty"   -> Reply(got, 404, "File not found in storage")
      [] shape = "undef"   -> ServeError(got, "Cannot read properties of undefined")
      [] shape = "nomedia" -> Reply(got, 404, "No media found")
      [] shape = "media"   -> [got EXCEPT !.pc = "done",
                                          !.res = [NoRes EXCEPT !.status = 200]]

(* The rest of app.get("/file/:id") up to its second await.                *)
AfterGetMessages(r, shape) ==
    LET got == [r EXCEPT !.got = shape] IN
    CASE shape = "throw"   -> ServeError(got, "getMessages failed")
      [] shape = "empty"   -> Reply(got, 404, "File not found in storage")
      [] shape = "undef"   -> ServeError(got, "Cannot read properties of undefined")
      [] shape = "nomedia" -> Reply(got, 404, "No media found")
      [] shape = "media"   -> [got EXCEPT !.pc = "downloadMedia", !.upstream = @ + 1]

ContentType(fileData) ==
    IF fileData.mimeType # Undefined THEN fileData.mimeType
    ELSE "application/octet-stream"

AfterDownload(r, buffer) ==
    [r EXCEPT !.pc = "done", !.dl = "ok",
              !.res = [NoRes EXCEPT !.status = 200,
                                    !.ctype = ContentType(r.fileData),
                                    !.fname = r.fileData.fileName,
                                    !.clen = buffer.len,
                                    !.body = buffer]]

EmbedNoAudio(fileType) ==
    IF fileType = "video" THEN "video" ELSE "none"

(* The player the watch page embeds for a record's fileType.               *)
Embed(fileType) ==
    IF fileType = "video" THEN "video"
    ELSE IF fileType = "audio" THEN "audio"
    ELSE "none"

(* app.get("/watch/:id") *)
WatchPage(r) ==
    IF ~Found(r.fileData) THEN Reply(r, 404, "File not found")
    ELSE [r EXCEPT !.pc = "done",
                   !.res = [NoRes EXCEPT
                       !.status = 200,
                       !.link = getFileLink(SliceTo(r.key, HashLen),
                                            SliceFrom(r.key, HashLen)),
                       !.embed = Embed(r.fileData.fileType)]]

(* The keys requested: the key of every file, and the bare hash of one.   *)
ReqKeys == {StoreKey(f) : f \in FileIds} \cup {generateHash(F1)}

Idle == req.pc = "idle"

GetFile(key) ==
    /\ Idle
    /\ req' = FileLookup(NewReq("file", key))
    /\ UNCHANGED <<fileStore, msgs, tasks, stored, channel, codec>>

GetMessagesResolvedEvict ==
    /\ req.pc = "getMessages"
    /\ \E shape \in Shapes(req.fileData.messageId) \cup {"throw"} :
        /\ req' = AfterGetMessages(req, shape)
        /\ fileStore' = IF shape = "media" THEN fileStore
                        ELSE [k \in DOMAIN fileStore \ {req.key} |-> fileStore[k]]
    /\ UNCHANGED <<msgs, tasks, stored, channel, codec>>

GetMessagesResolved ==
    /\ req.pc = "getMessages"
    /\ \E shape \in Shapes(req.fileData.messageId) \cup {"throw"} :
        req' = AfterGetMessages(req, shape)
    /\ UNCHANGED <<fileStore, msgs, tasks, stored, channel, codec>>

DownloadResolved ==
    /\ req.pc = "downloadMedia"
    /\ \/ req' = AfterDownload(req, [file |-> stored[req.fileData.messageId].file,
                                     len |-> stored[req.fileData.messageId].size])
       \/ req' = ServeError([req EXCEPT !.dl = "throw"], "downloadMedia failed")
    /\ UNCHANGED <<fileStore, msgs, tasks, stored, channel, codec>>

GetWatch(key) ==
    /\ Idle
    /\ req' = WatchPage(NewReq("watch", key))
    /\ UNCHANGED <<fileStore, msgs, tasks, stored, channel, codec>>

(* app.get("/"): the status page with the number of registered files.       *)
GetRoot ==
    /\ Idle
    /\ req' = [NoReq EXCEPT !.route = "root", !.pc = "done",
                            !.res = [NoRes EXCEPT !.status = 200,
                                                  !.total = Cardinality(DOMAIN fileStore)]]
    /\ UNCHANGED <<fileStore, msgs, tasks, stored, channel, codec>>

(* app.get("/health") *)
GetHealth ==
    /\ Idle
    /\ req' = [NoReq EXCEPT !.route = "health", !.pc = "done",
                            !.res = [NoRes EXCEPT !.status = 200, !.text = "OK"]]
    /\ UNCHANGED <<fileStore, msgs, tasks, stored, channel, codec>>

Close ==
    /\ req.pc = "done"
    /\ req' = NoReq
    /\ UNCHANGED <<fileStore, msgs, tasks, stored, channel, codec>>

Serve ==
    \/ \E key \in ReqKeys : GetFile(key)
    \/ GetMessagesResolved
    \/ DownloadResolved
    \/ \E key \in ReqKeys : GetWatch(key)
    \/ GetRoot
    \/ GetHealth
    \/ Close

CodecIdle == [phase |-> "idle", f |-> <<>>, key |-> <<>>, first |-> <<>>, rest |-> <<>>]

Init ==
    /\ fileStore = EmptyMap
    /\ msgs = <<>>
    /\ tasks = <<>>
    /\ stored = <<>>
    /\ channel = {}
    /\ req = NoReq
    /\ codec = CodecIdle

Arrive == \E m \in Inbound : NewMessage(m)

Steps ==
    \E i \in DOMAIN tasks :
        \/ HandleFile(i)
        \/ StatusResolved(i)
        \/ ForwardOk(i)
        \/ ForwardThrows(i)
        \/ EditResolved(i)
        \/ CatchResolved(i)

Ingest == Arrive \/ Steps

(* handleFile called directly, with any fileType.                          *)
FileTypes == Kinds \cup {"sticker"}

CallHandleFile(m, fileType) ==
    /\ Len(tasks) < MaxTasks
    /\ msgs' = Append(msgs, m)
    /\ tasks' = Append(tasks, NewTask(Len(msgs) + 1, fileType))
    /\ UNCHANGED <<fileStore, stored, channel, req, codec>>

(* The key codec on its own: generate a key from a file id, then split it  *)
(* the way the watch route does.                                           *)
Digits == {1, 2}

Ids == UNION {[1 .. n -> Digits] : n \in 1 .. MaxIdLen}

CodecGenerate ==
    /\ codec.phase = "input"
    /\ codec' = [codec EXCEPT !.phase = "generated", !.key = StoreKey(codec.f)]
    /\ UNCHANGED <<fileStore, msgs, tasks, stored, channel, req>>

CodecSplit ==
    /\ codec.phase = "generated"
    /\ codec' = [codec EXCEPT !.phase = "split",
                              !.first = SliceTo(codec.key, HashLen),
                              !.rest = SliceFrom(codec.key, HashLen)]
    /\ UNCHANGED <<fileStore, msgs, tasks, stored, channel, req>>

Upstream == \E id \in channel : DeleteStored(id)

NextIngest == Ingest \/ Upstream

SpecIngest == Init /\ [][NextIngest]_vars

Next == (req.pc # "done" /\ (Ingest \/ Upstream)) \/ Serve

Spec == Init /\ [][Next]_vars

NextUnit ==
    \/ \E m \in Inbound, fileType \in FileTypes : CallHandleFile(m, fileType)
    \/ \E i \in DOMAIN tasks : RejectResolved(i)
    \/ Steps

SpecUnit == Init /\ [][NextUnit]_vars

InitCodec ==
    /\ fileStore = EmptyMap
    /\ msgs = <<>>
    /\ tasks = <<>>
    /\ stored = <<>>
    /\ channel = {}
    /\ req = NoReq
    /\ codec \in {[CodecIdle EXCEPT !.phase = "input", !.f = f] : f \in Ids}

NextCodec == CodecGenerate \/ CodecSplit

SpecCodec == InitCodec /\ [][NextCodec]_vars

-----------------------------------------------------------------------------
(* Properties *)

Tasks == DOMAIN tasks

FileOf(i) == msgs[tasks[i].msg].file

Succeeds(i) == tasks[i].pc = "done" /\ "success" \in tasks[i].delivered

(* The keys some ingestion has inserted so far. *)
EverInserted == {tasks[i].key : i \in {j \in Tasks : tasks[j].inserted}}

FileReqDone == req.route = "file" /\ req.pc = "done"

(* C1: when the storage channel no longer holds the message of a           *)
(* registered key at the time getMessages runs, GET /file/{key} answers    *)
(* 404, never 500.                                                         *)
UpstreamDeletionIs404 ==
    (FileReqDone /\ req.fileData # NoRec /\ req.got \in {"empty", "undef"})
        => req.res.status = 404

(* C2: a key that maps to a record maps to the same record after every     *)
(* step: no entry is updated or deleted.                                   *)
RegistryAppendOnly ==
    [][\A k \in DOMAIN fileStore :
           k \in DOMAIN fileStore' /\ fileStore'[k] = fileStore[k]]_vars

(* C3: when every ingestion so far was of a different file and all of      *)
(* them succeeded, however their steps interleaved, the registry holds     *)
(* exactly one entry per ingestion, each with that ingestion's record.     *)
ConcurrentIngestion ==
    ((\A i \in Tasks : Succeeds(i))
        /\ (\A i, j \in Tasks : i # j => FileOf(i) # FileOf(j)))
    => /\ Cardinality(DOMAIN fileStore) = Len(tasks)
       /\ \A i \in Tasks :
            /\ tasks[i].key \in DOMAIN fileStore
            /\ fileStore[tasks[i].key].fileId = FileOf(i)
            /\ fileStore[tasks[i].key].messageId = tasks[i].fwdId
            /\ fileStore[tasks[i].key].fileType = tasks[i].fileType

(* Two files with the same last six digits, relayed in the opposite order  *)
(* of their arrival, both registered.                                      *)
ConcurrentIngestionWitness ==
    /\ Len(tasks) = 2
    /\ \A i \in Tasks : Succeeds(i)
    /\ FileOf(1) # FileOf(2)
    /\ generateHash(FileOf(1)) = generateHash(FileOf(2))
    /\ tasks[2].fwdId < tasks[1].fwdId

(* C4: a request for a key that no ingestion has inserted is answered 404, *)
(* on /file and on /watch, without any call upstream.                      *)
MissIs404 ==
    (req.route \in {"file", "watch"} /\ req.key \notin EverInserted)
        => /\ req.pc = "done"
           /\ req.res.status = 404
           /\ req.upstream = 0
           /\ req.got = "none" /\ req.dl = "none"

MissIs404Witness ==
    /\ FileReqDone
    /\ req.key = generateHash(F1)
    /\ StoreKey(F1) \in DOMAIN fileStore
    /\ req.res.status = 404

(* C5: an ingestion whose relay into the storage channel failed has        *)
(* inserted nothing and has issued the error reply; a file none of whose   *)
(* relays succeeded has no entry.                                          *)
RelayFailure ==
    \A i \in Tasks :
        tasks[i].relay = "failed"
        => /\ ~tasks[i].inserted
           /\ tasks[i].fwdId = 0
           /\ "error" \in tasks[i].sent
           /\ "success" \notin tasks[i].sent
           /\ (\A j \in Tasks : FileOf(j) = FileOf(i) => tasks[j].relay # "ok")
                => \A k \in DOMAIN fileStore : fileStore[k].fileId # FileOf(i)

RelayFailureWitness ==
    \E i \in Tasks :
        /\ tasks[i].relay = "failed"
        /\ tasks[i].pc = "done"
        /\ "error" \in tasks[i].delivered
        /\ \E j \in Tasks : Succeeds(j)

(* C6: an ingestion that ended by reporting an error to the sender has     *)
(* left no record behind.                                                  *)
RecordOnlyOnSuccess ==
    \A i \in Tasks :
        (tasks[i].pc \in Ended /\ "error" \in tasks[i].sent) => ~tasks[i].inserted

(* C7: for a request that came after an ingestion had succeeded, on the    *)
(* direct link of its reply, with the message that ingestion relayed still *)
(* in the storage channel and no upstream call failing: 200, with the      *)
(* record's type and name, and the stored payload as body.                 *)
IngestThenFetch ==
    \A i \in req.seen :
        (FileReqDone /\ req.key = tasks[i].direct.key /\ tasks[i].fwdId \in channel
            /\ req.got # "throw" /\ req.dl # "throw")
        => /\ req.res.status = 200
           /\ req.res.ctype = ContentType(req.fileData)
           /\ req.res.fname = req.fileData.fileName
           /\ req.res.clen = stored[req.fileData.messageId].size
           /\ req.res.body.file = FileOf(i)

(* C8: splitting generate(f) after its first six characters gives back     *)
(* last6(f) and f, for every f, short ones included.                       *)
RoundTrip ==
    codec.phase = "split"
        => /\ codec.rest = codec.f
           /\ codec.first = SliceLast(codec.f, HashLen)

(* C9: no other file id, of any length, has the key of f.                  *)
KeyInjective ==
    codec.phase # "input"
        => \A g \in Ids : g # codec.f => StoreKey(g) # codec.key

(* A key generated for an id that shares its last six digits with another. *)
KeyInjectiveWitness ==
    /\ codec.phase = "generated"
    /\ \E g \in Ids : g # codec.f /\ generateHash(g) = generateHash(codec.f)

UpstreamFailureIs500 ==
    (FileReqDone /\ (req.got = "throw" \/ req.dl = "throw"))
        => /\ req.fileData # NoRec
           /\ req.res = [NoRes EXCEPT !.status = 500, !.text = "Error serving file"]
           /\ ENABLED Close

UpstreamFailureIs500Witness ==
    /\ FileReqDone
    /\ req.got = "media"
    /\ req.dl = "throw"
    /\ req.res.status = 500

TerminalReplies == {"unsupported", "success", "error"}

(* C12: no exception escapes an ingestion, and an ingestion that has ended *)
(* has delivered a terminal reply to the sender.                           *)
IngestionContained ==
    \A i \in Tasks :
        /\ tasks[i].pc # "escaped"
        /\ tasks[i].pc \in Ended => tasks[i].delivered \cap TerminalReplies # {}

(* C14: the success reply of an ingestion carries the direct link of its   *)
(* key, and a watch link of the same key exactly when its fileType is      *)
(* video or audio.                                                         *)
WatchLinkOffered ==
    \A i \in Tasks :
        "success" \in tasks[i].sent
        => /\ tasks[i].direct = [route |-> "file", key |-> tasks[i].key]
           /\ tasks[i].fileType \in {"video", "audio"}
                => tasks[i].watch = [route |-> "watch", key |-> tasks[i].key]
           /\ tasks[i].fileType \in {"document", "photo"}
                => tasks[i].watch = NoLink

WatchLinkOfferedWitness ==
    \E i, j \in Tasks :
        /\ Succeeds(i) /\ tasks[i].fileType = "audio" /\ tasks[i].watch # NoLink
        /\ Succeeds(j) /\ tasks[j].fileType = "document" /\ tasks[j].watch = NoLink

(* C15: two ingestions started from two distinct inbound messages insert   *)
(* under two different keys.                                               *)
DistinctMessagesDistinctKeys ==
    \A i, j \in Tasks :
        (tasks[i].inserted /\ tasks[j].inserted /\ tasks[i].msg # tasks[j].msg)
            => tasks[i].key # tasks[j].key

(* C16: an ingestion has inserted only if its relay succeeded, and has     *)
(* issued its success reply only if it has inserted; every record holds    *)
(* the id a successful relay of its file returned, and the key of every    *)
(* success reply is in the registry from the reply on.                     *)
StepOrdering ==
    /\ \A i \in Tasks :
        /\ tasks[i].inserted
            => tasks[i].relay = "ok" /\ tasks[i].fwdId \in 1 .. Len(stored)
        /\ "success" \in tasks[i].sent
            => /\ tasks[i].inserted
               /\ tasks[i].direct.key \in DOMAIN fileStore
        /\ tasks[i].pc \in {"start", "status", "forward"} => ~tasks[i].inserted
    /\ \A k \in DOMAIN fileStore :
        \E j \in Tasks :
            /\ tasks[j].relay = "ok"
            /\ tasks[j].key = k
            /\ tasks[j].fwdId = fileStore[k].messageId
            /\ stored[tasks[j].fwdId].file = fileStore[k].fileId

StepOrderingWitness ==
    \E i \in Tasks :
        /\ Succeeds(i)
        /\ tasks[i].msg = 2
        /\ tasks[i].fwdId = 1
        /\ fileStore[tasks[i].key].messageId = 1

(* C17: no inbound message starts more than one ingestion.                 *)
OneIngestionPerMessage ==
    \A i, j \in Tasks :
        (tasks[i].msg = tasks[j].msg /\ tasks[i].pc # "start" /\ tasks[j].pc # "start")
            => i = j

WatchReqDone == req.route = "watch" /\ req.pc = "done"

(* C13: a GET /watch/{key} of a registered key is answered 200 with a page *)
(* whose direct link is the file link of that very key, with a video       *)
(* player for a video record, an audio player for an audio record and no   *)
(* player for any other record.                                            *)
WatchPageOfKey ==
    (WatchReqDone /\ req.key \in DOMAIN fileStore)
        => /\ req.res.status = 200
           /\ req.res.link = [route |-> "file", key |-> req.key]
           /\ fileStore[req.key].fileType = "video" => req.res.embed = "video"
           /\ fileStore[req.key].fileType = "audio" => req.res.embed = "audio"
           /\ fileStore[req.key].fileType \in {"document", "photo"}
                => req.res.embed = "none"

WatchPageOfKeyWitness ==
    /\ WatchReqDone
    /\ req.key = StoreKey(F1)
    /\ req.key \in DOMAIN fileStore
    /\ fileStore[req.key].fileType = "audio"
    /\ req.res.status = 200

(* C18: a GET /file/{key} has no response while one of its upstream calls  *)
(* is pending, and that call can return; once answered its status is 200,  *)
(* 404 or 500, and a 200 carries the payload that this request's own       *)
(* getMessages and downloadMedia calls fetched.                            *)
FileAnsweredOnce ==
    req.route = "file"
        => /\ req.pc \in {"getMessages", "downloadMedia", "done"}
           /\ req.pc = "getMessages" => req.res = NoRes /\ ENABLED GetMessagesResolved
           /\ req.pc = "downloadMedia" => req.res = NoRes /\ ENABLED DownloadResolved
           /\ req.pc = "done"
                => /\ req.res.status \in {200, 404, 500}
                   /\ req.res.status = 200
                        => /\ req.got = "media"
                           /\ req.dl = "ok"
                           /\ req.upstream = 2
                           /\ req.res.body.file = stored[req.fileData.messageId].file

FileAnsweredOnceWitness ==
    /\ FileReqDone
    /\ req.res.status = 200
    /\ req.upstream = 2
    /\ req.res.body.file = F1

InsertStep ==
    \E i \in Tasks :
        /\ tasks[i].pc = "forward"
        /\ tasks'[i].pc = "edit"
        /\ tasks'[i].inserted
        /\ fileStore' = MapSet(fileStore, tasks'[i].key, RecordOf(tasks'[i], tasks'[i].fwdId))

(* C19: the registry is empty at start; no step of a request to /,         *)
(* /health, /file/{key} or /watch/{key} changes it, and every step that    *)
(* changes it is the insert of an ingestion.                               *)
RetrievalReadOnly ==
    /\ fileStore = EmptyMap
    /\ [][/\ req' # req => fileStore' = fileStore
          /\ fileStore' # fileStore => InsertStep]_vars

RetrievalReadOnlyWitness ==
    /\ req.route \in {"root", "health"}
    /\ req.pc = "done"
    /\ req.res.status = 200
    /\ fileStore # EmptyMap

====
